---- MODULE Spec2Model ----
(***************************************************************************)
(* Risk-manager-V6: the account-anchor store (stores/anchors_store.py) and *)
(* the rollover service (services/rollover_service.py) as a state machine. *)
(*                                                                         *)
(* Money is counted in whole units, wall-clock time in seconds since the   *)
(* epoch (UTC).  An Optional[...] attribute is a sequence: <<>> is None,    *)
(* <<v>> is the value v.                                                   *)
(***************************************************************************)
EXTENDS Integers, Sequences, FiniteSets, TLC

VARIABLES
    anchors,              \* AnchorsStore._anchors: account id -> AccountAnchors
    disk,                 \* data/anchors.json: <<>> (no file) or <<document>>
    now,                  \* the wall clock: time.time(), datetime.now(timezone.utc)
    last_rollover_check,  \* RolloverService.last_rollover_check
    last,                 \* the latest call: its name, arguments and outcome
    trace                 \* history of calls, or the calls in progress (per specification)

vars == <<anchors, disk, now, last_rollover_check, last, trace>>

----------------------------------------------------------------------------
(* Bounds of the model *)

MaxMoney == 1
MaxDay == 2
MaxCalls == 3

\* Account ids known to the accounts repository.
Accounts == {1, 2}
\* The account the full state machine (Spec) follows.
Monitored == {1}

\* Equities and balances reported by the platform.
Money == 0..MaxMoney
\* Candidates passed to update_eod_high_anchor (any float is accepted).
Candidates == (0 - 1)..MaxMoney
\* Starting balances passed by callers (any float is accepted): a negative one,
\* zero, and two different positive ones.
StartingBalances == {0 - 1, 0, 1, MaxMoney + 1}

None == <<>>
Some(v) == <<v>>

Max(x, y) == IF x >= y THEN x ELSE y

----------------------------------------------------------------------------
(* Program constants *)

SecondsPerDay == 86400
SecondsPerHour == 3600
SecondsPerMinute == 60
CtOffsetHours == 5
RolloverHour == 17
RolloverMinute == 0
rollover_check_interval == 60
InitialRolloverCheck == 0

\* Seconds of the UTC day at which the clock is observed: 30 s before the
\* cutover minute (17:00 CT = 22:00 UTC), its first second, its middle, and the
\* first second after it.
Offsets ==
    { (RolloverHour + CtOffsetHours) * SecondsPerHour + d : d \in {0 - 30, 0, 30, 60} }

Instants == { d * SecondsPerDay + o : d \in 1..MaxDay, o \in Offsets }

\* datetime.now(timezone.utc).strftime("%Y-%m-%d"): the UTC calendar date,
\* as the number of the day.
Today(t) == t \div SecondsPerDay

----------------------------------------------------------------------------
(* AccountAnchors *)

NewAnchors(a) ==
    [ account_id |-> a,
      starting_balance |-> 0,
      eod_high_anchor |-> 0,
      intraday_high_today |-> None,
      last_rollover_date |-> None,
      locked_out |-> FALSE ]

\* Mutant: the larger of the two balances is kept.
Mutant_set_starting_balance_keeps_larger(r, balance) ==
    IF balance > r.starting_balance
    THEN [r EXCEPT !.starting_balance = balance]
    ELSE r

\* Mutant: the set-once guard is missing.
Mutant_set_starting_balance_unguarded(r, balance) ==
    [r EXCEPT !.starting_balance = balance]

AccountAnchors_set_starting_balance(r, balance) ==
    IF r.starting_balance = 0
    THEN [r EXCEPT !.starting_balance = balance]
    ELSE r

\* Mutant: the anchor is assigned whatever the candidate is.
Mutant_update_eod_high_anchor_unguarded(r, balance) ==
    [r EXCEPT !.eod_high_anchor = balance]

AccountAnchors_update_eod_high_anchor(r, balance) ==
    IF balance > r.eod_high_anchor
    THEN [r EXCEPT !.eod_high_anchor = balance]
    ELSE r

\* Mutant: an absent intraday high counts as 0.0.
Mutant_update_intraday_high_absent_is_zero(r, equity) ==
    IF equity > (IF r.intraday_high_today = None THEN 0 ELSE r.intraday_high_today[1])
    THEN [r EXCEPT !.intraday_high_today = Some(equity)]
    ELSE r

AccountAnchors_update_intraday_high(r, equity) ==
    IF r.intraday_high_today = None \/ equity > r.intraday_high_today[1]
    THEN [r EXCEPT !.intraday_high_today = Some(equity)]
    ELSE r

AccountAnchors_reset_intraday_high(r) ==
    [r EXCEPT !.intraday_high_today = None]

\* Mutant: unlocking also forgets the last rollover.
Mutant_set_locked_out_clears_date(r, locked) ==
    [r EXCEPT !.locked_out = locked,
              !.last_rollover_date = IF locked THEN @ ELSE None]

AccountAnchors_set_locked_out(r, locked) ==
    [r EXCEPT !.locked_out = locked]

\* Python truthiness of an Optional[float]: None and 0.0 are falsy.
Truthy(opt) == opt # None /\ opt[1] # 0

\* `anchors.intraday_high_today or current_equity`
IntradayHighOr(r, current_equity) ==
    IF Truthy(r.intraday_high_today) THEN r.intraday_high_today[1] ELSE current_equity

\* Mutant: the daily state is reset only when the fold raises the anchor.
Mutant_RolloverRecord_resets_when_raised(r, current_equity, today) ==
    LET r1 == AccountAnchors_update_eod_high_anchor(r, IntradayHighOr(r, current_equity))
        r2 == IF r1.eod_high_anchor > r.eod_high_anchor
              THEN [r1 EXCEPT !.intraday_high_today = None, !.locked_out = FALSE]
              ELSE r1
    IN  [r2 EXCEPT !.last_rollover_date = Some(today)]

\* Mutant: the fold records the rollover date and nothing else.
Mutant_RolloverRecord_date_only(r, current_equity, today) ==
    [r EXCEPT !.last_rollover_date = Some(today)]

\* Mutant: the fold does not record the rollover date.
Mutant_RolloverRecord_no_date(r, current_equity, today) ==
    LET r1 == AccountAnchors_update_eod_high_anchor(r, IntradayHighOr(r, current_equity))
    IN  [r1 EXCEPT !.intraday_high_today = None, !.locked_out = FALSE]

\* Mutant: the fold assigns the folded high instead of raising the anchor to it.
Mutant_RolloverRecord_assigns(r, current_equity, today) ==
    [r EXCEPT !.eod_high_anchor = IntradayHighOr(r, current_equity),
              !.intraday_high_today = None,
              !.locked_out = FALSE,
              !.last_rollover_date = Some(today)]

\* The body of AnchorsStore.perform_rollover on the record, before the save.
RolloverRecord(r, current_equity, today) ==
    LET r1 == AccountAnchors_update_eod_high_anchor(r, IntradayHighOr(r, current_equity))
        r2 == AccountAnchors_reset_intraday_high(r1)
        r3 == AccountAnchors_set_locked_out(r2, FALSE)
    IN  [r3 EXCEPT !.last_rollover_date = Some(today)]

----------------------------------------------------------------------------
(* Persistence: the JSON document *)

\* str(account_id), the document's keys.
IdKey(a) == CASE a = 1 -> "1" [] a = 2 -> "2"
\* The key is the decimal form of an account id (int(key) does not raise).
IsIdKey(k) == \E a \in Accounts : IdKey(a) = k
\* int(key)
KeyId(k) == CHOOSE a \in Accounts : IdKey(a) = k

to_dict(r) ==
    [ account_id |-> r.account_id,
      starting_balance |-> r.starting_balance,
      eod_high_anchor |-> r.eod_high_anchor,
      intraday_high_today |-> r.intraday_high_today,
      last_rollover_date |-> r.last_rollover_date,
      locked_out |-> r.locked_out ]

\* dict.get(key, default)
Get(d, key, default) == IF key \in DOMAIN d THEN d[key] ELSE default

\* Mutant: the last rollover date is not read back.
Mutant_from_dict_forgets_date(d) ==
    [ account_id |-> d.account_id,
      starting_balance |-> Get(d, "starting_balance", 0),
      eod_high_anchor |-> Get(d, "eod_high_anchor", 0),
      intraday_high_today |-> Get(d, "intraday_high_today", None),
      last_rollover_date |-> None,
      locked_out |-> Get(d, "locked_out", FALSE) ]

\* Mutant: the intraday high is read back as 0.0 when it is absent.
Mutant_from_dict_zero_intraday(d) ==
    [ account_id |-> d.account_id,
      starting_balance |-> Get(d, "starting_balance", 0),
      eod_high_anchor |-> Get(d, "eod_high_anchor", 0),
      intraday_high_today |->
          IF Get(d, "intraday_high_today", None) = None
          THEN Some(0)
          ELSE d.intraday_high_today,
      last_rollover_date |-> Get(d, "last_rollover_date", None),
      locked_out |-> Get(d, "locked_out", FALSE) ]

\* from_dict of an entry that has an account_id (data["account_id"] raises
\* KeyError otherwise); the other keys have defaults.
from_dict(d) ==
    [ account_id |-> d.account_id,
      starting_balance |-> Get(d, "starting_balance", 0),
      eod_high_anchor |-> Get(d, "eod_high_anchor", 0),
      intraday_high_today |-> Get(d, "intraday_high_today", None),
      last_rollover_date |-> Get(d, "last_rollover_date", None),
      locked_out |-> Get(d, "locked_out", FALSE) ]

\* The document _save_anchors writes for the map m.
Document(m) ==
    [ k \in { IdKey(a) : a \in DOMAIN m } |-> to_dict(m[KeyId(k)]) ]

\* A file json.load rejects: empty, cut short, or not JSON at all.
Unparseable == <<"{", "">>

\* _save_anchors: the file is rewritten in full.
SaveAnchors(m) == Some(Document(m))

\* What _save_anchors leaves on disk when it does not complete: the file f as
\* it was (open failed, or the process died before it), or the file cut to
\* length 0 by open(..., 'w') and written in part.
InterruptedWrites(f) == {f, Unparseable}

\* The try block of _load_anchors raises: json.load rejects the file, a key
\* is not an integer, or an entry has no account_id.
LoadRaises(f) ==
    /\ f # None
    /\ \/ f = Unparseable
       \/ \E k \in DOMAIN f[1] :
             ~IsIdKey(k) \/ "account_id" \notin DOMAIN f[1][k]

\* Mutant: the entries read before the first bad one are kept.
Mutant_LoadAnchors_partial(f) ==
    IF f = None \/ f = Unparseable
    THEN <<>>
    ELSE [ a \in { KeyId(k) : k \in { j \in DOMAIN f[1] :
                        IsIdKey(j) /\ "account_id" \in DOMAIN f[1][j] } }
             |-> from_dict(f[1][IdKey(a)]) ]

\* _load_anchors: the map of a new store over the file f.  _anchors is
\* assigned only when the whole document has been converted; any exception
\* is logged and leaves the empty map.
LoadAnchors(f) ==
    IF f = None \/ LoadRaises(f)
    THEN <<>>
    ELSE [ a \in { KeyId(k) : k \in DOMAIN f[1] } |-> from_dict(f[1][IdKey(a)]) ]

----------------------------------------------------------------------------
(* AnchorsStore *)

\* Mutant: the lookup keeps the looked-up account only.
Mutant_get_anchors_forgets_others(m, a) ==
    (a :> (IF a \in DOMAIN m THEN m[a] ELSE NewAnchors(a)))

\* Mutant: the lookup always installs a new record.
Mutant_get_anchors_always_new(m, a) ==
    [ b \in DOMAIN m \cup {a} |-> IF b = a THEN NewAnchors(a) ELSE m[b] ]

\* get_anchors: the map after the lookup (an unseen id gets a new record).
get_anchors(m, a) ==
    IF a \in DOMAIN m THEN m ELSE m @@ (a :> NewAnchors(a))

\* Mutant: every account is always due.
Mutant_is_rollover_needed_always(m, a, t) == TRUE

\* is_rollover_needed, on the map get_anchors leaves.
is_rollover_needed(m, a, t) ==
    get_anchors(m, a)[a].last_rollover_date # Some(Today(t))

Call(op, a, arg, out, rolled) ==
    [ op |-> op, acct |-> a, arg |-> arg, out |-> out, rolled |-> rolled ]

AnchorsStore_set_starting_balance(a, balance) ==
    LET m == get_anchors(anchors, a) IN
    /\ anchors' = [m EXCEPT ![a] = AccountAnchors_set_starting_balance(m[a], balance)]
    /\ disk' = SaveAnchors(anchors')
    /\ last' = Call("set_starting_balance", a, <<balance>>, "ok", <<>>)
    /\ UNCHANGED <<now, last_rollover_check>>

AnchorsStore_update_eod_high_anchor(a, balance) ==
    LET m == get_anchors(anchors, a) IN
    /\ anchors' = [m EXCEPT ![a] = AccountAnchors_update_eod_high_anchor(m[a], balance)]
    /\ disk' = SaveAnchors(anchors')
    /\ last' = Call("update_eod_high_anchor", a, <<balance>>, "ok", <<>>)
    /\ UNCHANGED <<now, last_rollover_check>>

AnchorsStore_update_intraday_high(a, equity) ==
    LET m == get_anchors(anchors, a) IN
    /\ anchors' = [m EXCEPT ![a] = AccountAnchors_update_intraday_high(m[a], equity)]
    /\ disk' = SaveAnchors(anchors')
    /\ last' = Call("update_intraday_high", a, <<equity>>, "ok", <<>>)
    /\ UNCHANGED <<now, last_rollover_check>>

\* Mutant: set_locked_out changes the record and does not save.
Mutant_set_locked_out_unsaved(a, locked) ==
    LET m == get_anchors(anchors, a) IN
    /\ anchors' = [m EXCEPT ![a] = AccountAnchors_set_locked_out(m[a], locked)]
    /\ last' = Call("set_locked_out", a, <<locked>>, "ok", <<>>)
    /\ UNCHANGED <<disk, now, last_rollover_check>>

AnchorsStore_set_locked_out(a, locked) ==
    LET m == get_anchors(anchors, a) IN
    /\ anchors' = [m EXCEPT ![a] = AccountAnchors_set_locked_out(m[a], locked)]
    /\ disk' = SaveAnchors(anchors')
    /\ last' = Call("set_locked_out", a, <<locked>>, "ok", <<>>)
    /\ UNCHANGED <<now, last_rollover_check>>

AnchorsStore_perform_rollover(a, current_equity) ==
    LET m == get_anchors(anchors, a) IN
    /\ anchors' = [m EXCEPT ![a] = RolloverRecord(m[a], current_equity, Today(now))]
    /\ disk' = SaveAnchors(anchors')
    /\ last' = Call("perform_rollover", a, <<current_equity>>, "ok", <<>>)
    /\ UNCHANGED <<now, last_rollover_check>>

----------------------------------------------------------------------------
(* RolloverService *)

\* is_rollover_time: the wall clock shifted to CT (UTC-5) reads 17:00.
is_rollover_time(t) ==
    LET ct_time == t - CtOffsetHours * SecondsPerHour
        hour == (ct_time \div SecondsPerHour) % 24
        minute == (ct_time \div SecondsPerMinute) % 60
    IN  hour = RolloverHour /\ minute = RolloverMinute

\* Mutant: no rate limit.
Mutant_should_check_rollover_always(t, last_check) == TRUE

\* should_check_rollover: the rate limit (the caller records t when it passes).
should_check_rollover(t, last_check) ==
    t - last_check >= rollover_check_interval

\* An account object of the accounts repository, as far as the service reads it.
Account(a, e) == [id |-> a, display_equity |-> e]

\* The lists get_active_accounts can return over the ids S: some of the
\* accounts, in the repository's order, each with its equity.
RECURSIVE InOrder(_, _)
InOrder(S, eq) ==
    IF S = {} THEN <<>>
    ELSE LET a == CHOOSE x \in S : \A y \in S : x <= y
         IN  <<Account(a, eq[a])>> \o InOrder(S \ {a}, eq)

ActiveLists(S) ==
    UNION { { InOrder(sub, eq) : eq \in [sub -> Money] } : sub \in SUBSET S }

\* The loop of perform_rollover_if_needed over the active accounts: the map
\* it leaves and the ids it rolled.
RECURSIVE RolloverLoop(_, _, _, _)
RolloverLoop(accounts, m, rolled, t) ==
    IF accounts = <<>>
    THEN [m |-> m, rolled |-> rolled]
    ELSE LET account == Head(accounts)
             m1 == get_anchors(m, account.id)
         IN  IF is_rollover_needed(m, account.id, t)
             THEN RolloverLoop(
                      Tail(accounts),
                      [m1 EXCEPT ![account.id] =
                          RolloverRecord(m1[account.id], account.display_equity, Today(t))],
                      Append(rolled, account.id),
                      t)
             ELSE RolloverLoop(Tail(accounts), m1, rolled, t)

RolloverService_perform_rollover_if_needed(accounts) ==
    IF ~should_check_rollover(now, last_rollover_check)
    THEN /\ last' = Call("perform_rollover_if_needed", 0, accounts, "ok", <<>>)
         /\ UNCHANGED <<anchors, disk, now, last_rollover_check>>
    ELSE /\ last_rollover_check' = now
         /\ IF ~is_rollover_time(now)
            THEN /\ last' = Call("perform_rollover_if_needed", 0, accounts, "ok", <<>>)
                 /\ UNCHANGED <<anchors, disk, now>>
            ELSE LET done == RolloverLoop(accounts, anchors, <<>>, now) IN
                 /\ anchors' = done.m
                 \* perform_rollover saves after each fold
                 /\ disk' = IF done.rolled = <<>> THEN disk ELSE SaveAnchors(done.m)
                 /\ last' = Call("perform_rollover_if_needed", 0, accounts, "ok", done.rolled)
                 /\ UNCHANGED now

RolloverService_initialize_account_anchors(a, current_balance, starting_balance) ==
    LET m == get_anchors(anchors, a)
        r1 == AccountAnchors_set_starting_balance(m[a], starting_balance)
        r2 == AccountAnchors_update_eod_high_anchor(r1, current_balance)
    IN
    /\ anchors' = [m EXCEPT ![a] = r2]
    /\ disk' = SaveAnchors(anchors')
    /\ last' = Call("initialize_account_anchors", a,
                    <<current_balance, starting_balance>>, "ok", <<>>)
    /\ UNCHANGED <<now, last_rollover_check>>

----------------------------------------------------------------------------
(* The clock *)

\* Time passes to the next instant at which the clock is observed.
AdvanceClock ==
    /\ \E t \in Instants :
          /\ t > now
          /\ \A u \in Instants : u > now => t <= u
          /\ now' = t
    /\ UNCHANGED <<anchors, disk, last_rollover_check, last>>

----------------------------------------------------------------------------
(* Failed writes, crashes and restarts *)

\* The mutating operations of the store.
StoreOps ==
    { "set_starting_balance", "update_eod_high_anchor", "update_intraday_high",
      "set_locked_out", "perform_rollover" }

\* The record after the in-memory part of the store mutator op.
Mutated(op, r, arg, today) ==
    CASE op = "set_starting_balance" -> AccountAnchors_set_starting_balance(r, arg)
      [] op = "update_eod_high_anchor" -> AccountAnchors_update_eod_high_anchor(r, arg)
      [] op = "update_intraday_high" -> AccountAnchors_update_intraday_high(r, arg)
      [] op = "set_locked_out" -> AccountAnchors_set_locked_out(r, arg)
      [] op = "perform_rollover" -> RolloverRecord(r, arg, today)

\* Mutant: a failed write undoes the change made in memory.
Mutant_failed_write_rolls_back(op, a, arg, f) ==
    /\ f \in InterruptedWrites(disk)
    /\ anchors' = get_anchors(anchors, a)
    /\ disk' = f
    /\ last' = Call(op, a, <<arg>>, "RiskManagerError", <<>>)
    /\ UNCHANGED <<now, last_rollover_check>>

\* A store mutator whose _save_anchors raises: the record is already changed
\* in memory, the write leaves the file f, and RiskManagerError reaches the
\* caller.
AnchorsStore_failed_write(op, a, arg, f) ==
    LET m == get_anchors(anchors, a) IN
    /\ f \in InterruptedWrites(disk)
    /\ anchors' = [m EXCEPT ![a] = Mutated(op, m[a], arg, Today(now))]
    /\ disk' = f
    /\ last' = Call(op, a, <<arg>>, "RiskManagerError", <<>>)
    /\ UNCHANGED <<now, last_rollover_check>>

\* The process dies inside the _save_anchors of a store mutator, leaving the
\* file f, and is started again: a new AnchorsStore over the file and a new
\* RolloverService (run.py).
CrashInSave(op, a, arg, f) ==
    LET m == get_anchors(anchors, a)
        post == [m EXCEPT ![a] = Mutated(op, m[a], arg, Today(now))]
    IN
    /\ f \in InterruptedWrites(disk) \cup {SaveAnchors(post)}
    /\ disk' = f
    /\ anchors' = LoadAnchors(f)
    /\ last_rollover_check' = InitialRolloverCheck
    /\ last' = Call(op, a, <<arg>>, "crash", <<>>)
    /\ UNCHANGED now

\* The process is stopped between calls and started again.
Restart ==
    /\ anchors' = LoadAnchors(disk)
    /\ last_rollover_check' = InitialRolloverCheck
    /\ last' = Call("restart", 0, <<>>, "ok", <<>>)
    /\ UNCHANGED <<disk, now>>

\* RolloverService.update_intraday_high: the store's call, its exception
\* logged and not raised again.
RolloverService_update_intraday_high(a, current_equity) ==
    LET m == get_anchors(anchors, a) IN
    /\ anchors' = [m EXCEPT ![a] = AccountAnchors_update_intraday_high(m[a], current_equity)]
    /\ disk' = SaveAnchors(anchors')
    /\ last' = Call("RolloverService.update_intraday_high", a, <<current_equity>>, "ok", <<>>)
    /\ UNCHANGED <<now, last_rollover_check>>

RolloverService_update_intraday_high_failed_write(a, current_equity, f) ==
    LET m == get_anchors(anchors, a) IN
    /\ f \in InterruptedWrites(disk)
    /\ anchors' = [m EXCEPT ![a] = AccountAnchors_update_intraday_high(m[a], current_equity)]
    /\ disk' = f
    /\ last' = Call("RolloverService.update_intraday_high", a, <<current_equity>>, "ok", <<>>)
    /\ UNCHANGED <<now, last_rollover_check>>

\* perform_rollover_if_needed when the writes of the store fail: each due
\* account is folded in memory, its RiskManagerError is logged by the loop,
\* its id is not appended, and the call returns the list.
RolloverService_perform_rollover_if_needed_failed_write(accounts, f) ==
    LET done == RolloverLoop(accounts, anchors, <<>>, now) IN
    /\ should_check_rollover(now, last_rollover_check)
    /\ is_rollover_time(now)
    /\ done.rolled # <<>>
    /\ f \in InterruptedWrites(disk)
    /\ last_rollover_check' = now
    /\ anchors' = done.m
    /\ disk' = f
    /\ last' = Call("perform_rollover_if_needed", 0, accounts, "ok", <<>>)
    /\ UNCHANGED now

\* initialize_account_anchors when its n-th write fails (n = 1: the write of
\* set_starting_balance, and update_eod_high_anchor is not reached; n = 2:
\* the write of update_eod_high_anchor): the error is raised again.
RolloverService_initialize_account_anchors_failed_write(a, current_balance, starting_balance, n, f) ==
    LET m == get_anchors(anchors, a)
        r1 == AccountAnchors_set_starting_balance(m[a], starting_balance)
        r2 == AccountAnchors_update_eod_high_anchor(r1, current_balance)
    IN
    /\ f \in InterruptedWrites(
                IF n = 1 THEN disk ELSE SaveAnchors([m EXCEPT ![a] = r1]))
    /\ anchors' = [m EXCEPT ![a] = IF n = 1 THEN r1 ELSE r2]
    /\ disk' = f
    /\ last' = Call("initialize_account_anchors", a,
                    <<current_balance, starting_balance>>, "RiskManagerError", <<>>)
    /\ UNCHANGED <<now, last_rollover_check>>

----------------------------------------------------------------------------
(* Specifications *)

Init ==
    /\ anchors = <<>>
    /\ disk = None
    /\ now \in Instants
    /\ last_rollover_check = InitialRolloverCheck
    /\ last = Call("init", 0, <<>>, "ok", <<>>)
    /\ trace = <<>>

Next ==
    \/ \E a \in Monitored, b \in StartingBalances :
          AnchorsStore_set_starting_balance(a, b) /\ UNCHANGED trace
    \/ \E a \in Monitored, b \in Candidates :
          AnchorsStore_update_eod_high_anchor(a, b) /\ UNCHANGED trace
    \/ \E a \in Monitored, e \in Money :
          AnchorsStore_update_intraday_high(a, e) /\ UNCHANGED trace
    \/ \E a \in Monitored, l \in BOOLEAN :
          AnchorsStore_set_locked_out(a, l) /\ UNCHANGED trace
    \/ \E a \in Monitored, e \in Money :
          AnchorsStore_perform_rollover(a, e) /\ UNCHANGED trace
    \* run.py passes the starting balance configured for the account
    \/ \E a \in Monitored, c \in Money, b \in {MaxMoney + 1} :
          RolloverService_initialize_account_anchors(a, c, b) /\ UNCHANGED trace
    \/ \E accounts \in ActiveLists(Monitored) :
          RolloverService_perform_rollover_if_needed(accounts) /\ UNCHANGED trace
    \/ AdvanceClock /\ UNCHANGED trace

Spec == Init /\ [][Next]_vars

\* The arguments callers pass to the store mutator op under SpecFaults.
FaultArgs(op) ==
    CASE op = "set_starting_balance" -> {MaxMoney + 1}
      [] op = "update_eod_high_anchor" -> Money
      [] op = "update_intraday_high" -> {MaxMoney}
      [] op = "set_locked_out" -> BOOLEAN
      [] op = "perform_rollover" -> {0}

\* The store mutator op as the action that models it.
StoreCall(op, a, arg) ==
    CASE op = "set_starting_balance" -> AnchorsStore_set_starting_balance(a, arg)
      [] op = "update_eod_high_anchor" -> AnchorsStore_update_eod_high_anchor(a, arg)
      [] op = "update_intraday_high" -> AnchorsStore_update_intraday_high(a, arg)
      [] op = "set_locked_out" -> AnchorsStore_set_locked_out(a, arg)
      [] op = "perform_rollover" -> AnchorsStore_perform_rollover(a, arg)

\* The store and the service with writes that can fail, a process that can
\* die while it writes, and restarts, inside the cutover minute of the last
\* day of the model.
InitFaults == Init /\ Today(now) = MaxDay /\ is_rollover_time(now)

NextFaults ==
    \/ \E op \in StoreOps, a \in Monitored : \E arg \in FaultArgs(op) :
          StoreCall(op, a, arg) /\ UNCHANGED trace
    \/ \E op \in StoreOps, a \in Monitored : \E arg \in FaultArgs(op) :
          \E f \in InterruptedWrites(disk) :
              AnchorsStore_failed_write(op, a, arg, f) /\ UNCHANGED trace
    \/ \E op \in StoreOps, a \in Monitored : \E arg \in FaultArgs(op) :
          \E f \in {None, Unparseable, disk,
                    SaveAnchors([get_anchors(anchors, a) EXCEPT
                        ![a] = Mutated(op, @, arg, Today(now))])} :
              CrashInSave(op, a, arg, f) /\ UNCHANGED trace
    \/ Restart /\ UNCHANGED trace
    \/ \E a \in Monitored, e \in {MaxMoney} :
          RolloverService_update_intraday_high(a, e) /\ UNCHANGED trace
    \/ \E a \in Monitored, e \in {MaxMoney} : \E f \in InterruptedWrites(disk) :
          RolloverService_update_intraday_high_failed_write(a, e, f) /\ UNCHANGED trace
    \/ \E accounts \in ActiveLists(Monitored) :
          RolloverService_perform_rollover_if_needed(accounts) /\ UNCHANGED trace
    \/ \E accounts \in ActiveLists(Monitored) : \E f \in InterruptedWrites(disk) :
          RolloverService_perform_rollover_if_needed_failed_write(accounts, f)
              /\ UNCHANGED trace
    \/ \E a \in Monitored, c \in {MaxMoney} :
          RolloverService_initialize_account_anchors(a, c, MaxMoney + 1)
              /\ UNCHANGED trace
    \/ \E a \in Monitored, c \in {MaxMoney}, n \in 1..2 :
          \E f \in {None, Unparseable, disk,
                    SaveAnchors([get_anchors(anchors, a) EXCEPT
                        ![a] = AccountAnchors_set_starting_balance(@, MaxMoney + 1)])} :
              RolloverService_initialize_account_anchors_failed_write(
                  a, c, MaxMoney + 1, n, f) /\ UNCHANGED trace

SpecFaults == InitFaults /\ [][NextFaults]_vars

\* Calls of set_starting_balance alone, from a new store, with their history.
NextSetOnce ==
    \E a \in Accounts, b \in StartingBalances :
        /\ Len(trace) < MaxCalls
        /\ AnchorsStore_set_starting_balance(a, b)
        /\ trace' = Append(trace, last')

SpecSetOnce == Init /\ [][NextSetOnce]_vars

\* Calls of update_eod_high_anchor alone, from a new store, with their history.
NextRaise ==
    \E a \in Accounts, b \in Candidates :
        /\ Len(trace) < MaxCalls
        /\ AnchorsStore_update_eod_high_anchor(a, b)
        /\ trace' = Append(trace, last')

SpecRaise == Init /\ [][NextRaise]_vars

----------------------------------------------------------------------------
(* Helpers of the properties *)

\* The record of account a as a caller reads it (get_anchors).
Rec(m, a) == get_anchors(m, a)[a]

\* The arguments of the calls of the history made on account a, in order.
RECURSIVE ArgsOn(_, _)
ArgsOn(t, a) ==
    IF t = <<>> THEN <<>>
    ELSE IF Head(t).acct = a
         THEN <<Head(t).arg[1]>> \o ArgsOn(Tail(t), a)
         ELSE ArgsOn(Tail(t), a)

Range(q) == { q[i] : i \in DOMAIN q }

MaxOf(S) == CHOOSE x \in S : \A y \in S : x >= y

\* The record of a holds today's date as its last rollover date.
FoldedToday(m, a, t) ==
    a \in DOMAIN m /\ m[a].last_rollover_date = Some(Today(t))

\* The step is the call the primed `last` records, made with its arguments.
SetStartingBalanceStep ==
    /\ last'.op = "set_starting_balance"
    /\ AnchorsStore_set_starting_balance(last'.acct, last'.arg[1])

PerformRolloverStep ==
    /\ last'.op = "perform_rollover"
    /\ AnchorsStore_perform_rollover(last'.acct, last'.arg[1])

PollStep ==
    /\ last'.op = "perform_rollover_if_needed"
    /\ RolloverService_perform_rollover_if_needed(last'.arg)

\* The ids of a list of account objects.
Ids(accounts) == { accounts[i].id : i \in DOMAIN accounts }

\* update_eod_high_anchor applied to a new record for each candidate of q in turn.
RECURSIVE RaiseAll(_, _)
RaiseAll(r, q) ==
    IF q = <<>> THEN r
    ELSE RaiseAll(AccountAnchors_update_eod_high_anchor(r, Head(q)), Tail(q))

Reorderings(q) ==
    { [i \in DOMAIN q |-> q[p[i]]] : p \in Permutations(DOMAIN q) }

----------------------------------------------------------------------------
(* C1 *)

\* C1: once an account's starting_balance holds a positive value, no operation
\* of the store or of the rollover service changes it.
C1_StartingBalanceSetOnce ==
    [][ \A a \in DOMAIN anchors :
            anchors[a].starting_balance > 0
            => /\ a \in DOMAIN anchors'
               /\ anchors'[a].starting_balance = anchors[a].starting_balance ]_vars

\* A set_starting_balance call with another value has just left a positive
\* starting balance as it was.
C1_Witness ==
    /\ last.op = "set_starting_balance"
    /\ last.acct \in DOMAIN anchors
    /\ anchors[last.acct].starting_balance > 0
    /\ last.arg[1] # anchors[last.acct].starting_balance
    /\ last.arg[1] > 0

----------------------------------------------------------------------------
(* C2 *)

\* The history holds exactly two set_starting_balance calls on a, b1 then b2.
SetTwice(a, b1, b2) == ArgsOn(trace, a) = <<b1, b2>>

----------------------------------------------------------------------------
(* C3 *)

\* C3: set_starting_balance(a, b) with b <= 0 on an account whose starting
\* balance is unset reports an error and leaves the starting balance unset.
C3_NonPositiveRejected ==
    [][ ( /\ SetStartingBalanceStep
          /\ Rec(anchors, last'.acct).starting_balance = 0
          /\ last'.arg[1] <= 0 )
        => /\ last'.out = "error"
           /\ anchors'[last'.acct].starting_balance = 0 ]_vars

----------------------------------------------------------------------------
(* C4 *)

\* C4 as stated: after any sequence of update_eod_high_anchor calls on a new
\* record the stored anchor is the maximum of the candidates passed, and every
\* reordering of the calls stores the same value.
C4_AnchorIsMaxOfCandidates ==
    \A a \in Accounts :
        LET q == ArgsOn(trace, a) IN
        q # <<>>
        => /\ anchors[a].eod_high_anchor = MaxOf(Range(q))
           /\ \A p \in Reorderings(q) :
                 RaiseAll(NewAnchors(a), p).eod_high_anchor = anchors[a].eod_high_anchor

\* C4 as amended: the stored anchor is the maximum of 0 (the new record's
\* anchor) and the candidates passed, and every reordering stores the same value.
C4_AnchorIsMaxOfZeroAndCandidates ==
    \A a \in Accounts :
        LET q == ArgsOn(trace, a) IN
        q # <<>>
        => /\ anchors[a].eod_high_anchor = MaxOf(Range(q) \cup {0})
           /\ \A p \in Reorderings(q) :
                 RaiseAll(NewAnchors(a), p).eod_high_anchor = anchors[a].eod_high_anchor

\* Candidates were passed in descending and non-monotone order and the anchor
\* is the largest of them.
C4_Witness ==
    \E a \in Accounts :
        LET q == ArgsOn(trace, a) IN
        /\ Len(q) >= 3
        /\ q[2] > q[1] /\ q[3] < q[2]
        /\ anchors[a].eod_high_anchor = q[2]

----------------------------------------------------------------------------
(* C5 *)

\* C5: no operation of the store or of the rollover service, perform_rollover
\* included, lowers an account's eod_high_anchor.
C5_AnchorNeverDecreases ==
    [][ \A a \in DOMAIN anchors :
            /\ a \in DOMAIN anchors'
            /\ anchors'[a].eod_high_anchor >= anchors[a].eod_high_anchor ]_vars

\* A rollover whose folded high is below the anchor has left the anchor alone.
C5_Witness ==
    /\ last.op = "perform_rollover"
    /\ last.arg[1] < anchors[last.acct].eod_high_anchor
    /\ anchors[last.acct].eod_high_anchor = MaxMoney

----------------------------------------------------------------------------
(* C6 *)

\* intraday_high_today ?? fallbackEquity: the intraday high whenever it is
\* present, zero included.
FoldedHigh(r, fallbackEquity) ==
    IF r.intraday_high_today # None THEN r.intraday_high_today[1] ELSE fallbackEquity

\* C6: perform_rollover sets eod_high_anchor to max(previous anchor,
\* foldedHigh), foldedHigh being the intraday high whenever one is present and
\* the fallback equity only when it is absent.
C6_FoldUsesIntradayHighWhenPresent ==
    [][ PerformRolloverStep
        => LET r == Rec(anchors, last'.acct) IN
           anchors'[last'.acct].eod_high_anchor =
              Max(r.eod_high_anchor, FoldedHigh(r, last'.arg[1])) ]_vars

----------------------------------------------------------------------------
(* C7 *)

\* The latest call was perform_rollover on a, today: the record is as that
\* call left it.
JustRolled(a) ==
    /\ last.op = "perform_rollover"
    /\ last.acct = a
    /\ FoldedToday(anchors, a, now)

\* C7 as stated: a second perform_rollover on the same day leaves every field
\* of the record as the first call left it, whatever the fallback equities.
C7_SecondRolloverChangesNothing ==
    [][ (PerformRolloverStep /\ JustRolled(last'.acct))
        => anchors'[last'.acct] = anchors[last'.acct] ]_vars

\* C7 as amended: a second perform_rollover on the same day leaves
\* starting_balance, intraday_high_today, last_rollover_date and locked_out as
\* the first call left them and sets eod_high_anchor to the larger of its value
\* and the second call's fallback equity.
C7_SecondRolloverOnlyRaisesAnchor ==
    [][ (PerformRolloverStep /\ JustRolled(last'.acct))
        => anchors'[last'.acct] =
              [anchors[last'.acct] EXCEPT !.eod_high_anchor = Max(@, last'.arg[1])] ]_vars

\* A rollover has just run today and left the anchor below an equity a second
\* call can pass.
C7_Witness ==
    /\ JustRolled(1)
    /\ anchors[1].eod_high_anchor < MaxMoney
    /\ anchors[1].starting_balance > 0

----------------------------------------------------------------------------
(* C8 *)

\* C8: is_rollover_needed is false right after perform_rollover, stays false
\* under every operation while the calendar date is unchanged, and is true
\* again once the date has advanced.
C8_RolloverNeededFollowsDate ==
    [][ /\ PerformRolloverStep => ~is_rollover_needed(anchors', last'.acct, now')
        /\ \A a \in DOMAIN anchors :
              /\ (~is_rollover_needed(anchors, a, now) /\ Today(now') = Today(now))
                 => ~is_rollover_needed(anchors', a, now')
              /\ (~is_rollover_needed(anchors, a, now) /\ Today(now') # Today(now))
                 => is_rollover_needed(anchors', a, now') ]_vars

\* The account was rolled by perform_rollover yesterday and is due again.
C8_Witness ==
    /\ last.op = "perform_rollover"
    /\ anchors[last.acct].last_rollover_date = Some(Today(now) - 1)
    /\ is_rollover_needed(anchors, last.acct, now)

----------------------------------------------------------------------------
(* C9 *)

\* C9: a perform_rollover_if_needed call made after an account was folded for
\* the day changes no field of its record and does not return the account.
C9_PollFoldsAtMostOncePerDay ==
    [][ PollStep
        => \A a \in Accounts :
              FoldedToday(anchors, a, now)
              => /\ anchors'[a] = anchors[a]
                 /\ a \notin Range(last'.rolled) ]_vars

\* A poll passed the rate limit inside the cutover minute with the account
\* active and already folded today, and returned an empty list.
C9_Witness ==
    /\ last.op = "perform_rollover_if_needed"
    /\ 1 \in Ids(last.arg)
    /\ last_rollover_check = now
    /\ is_rollover_time(now)
    /\ FoldedToday(anchors, 1, now)
    /\ anchors[1].intraday_high_today # None
    /\ last.rolled = <<>>

----------------------------------------------------------------------------
(* C10 *)

\* The CT wall clock reads 17:00 or later on the current UTC date.
CutoverReached(t) ==
    t - Today(t) * SecondsPerDay >= (RolloverHour + CtOffsetHours) * SecondsPerHour

\* C10: whatever the poll instants are, a poll that passes the rate limit at or
\* after the day's cutover leaves every active account folded for that day.
C10_CutoverNeverSkipped ==
    [][ ( /\ PollStep
          /\ should_check_rollover(now, last_rollover_check)
          /\ CutoverReached(now) )
        => \A a \in Ids(last'.arg) : FoldedToday(anchors', a, now') ]_vars

----------------------------------------------------------------------------
(* C11 *)

\* One poll of the history: the call, the instant it was made and the polled
\* accounts that were due at that instant.
PollEntry(call, t, m) ==
    [ call |-> call,
      at |-> t,
      due |-> { a \in Ids(call.arg) : ~FoldedToday(m, a, t) } ]

\* Polls of the service alone, at instants the caller chooses, with their history.
NextPoll ==
    \/ \E accounts \in ActiveLists(Monitored) :
          /\ Len(trace) < MaxCalls
          /\ RolloverService_perform_rollover_if_needed(accounts)
          /\ trace' = Append(trace, PollEntry(last', now, anchors))
    \/ AdvanceClock /\ UNCHANGED trace

SpecPoll == Init /\ [][NextPoll]_vars

\* The CT wall clock has passed the cutover minute (17:00) of the current UTC date.
WindowEnded(t) ==
    t - Today(t) * SecondsPerDay >=
        (RolloverHour + CtOffsetHours) * SecondsPerHour
            + (RolloverMinute + 1) * SecondsPerMinute

\* C11: when the cutover window of a day has ended, every account that was due
\* at a poll made inside that window has been folded for that day, whatever
\* polls came before it.
C11_RateLimitNeverSuppressesDueRollover ==
    \A i \in DOMAIN trace :
        \A a \in trace[i].due :
            ( /\ is_rollover_time(trace[i].at)
              /\ Today(trace[i].at) = Today(now)
              /\ WindowEnded(now) )
            => FoldedToday(anchors, a, now)

----------------------------------------------------------------------------
(* C12 *)

\* The record of account a as a new store reads it from the file f: <<>> when
\* the file holds none that can be read.
DiskRec(f, a) ==
    LET m == LoadAnchors(f) IN IF a \in DOMAIN m THEN Some(m[a]) ELSE None

DiskDate(f, a) ==
    IF DiskRec(f, a) = None THEN None ELSE DiskRec(f, a)[1].last_rollover_date

\* The step changes the last rollover date the file holds for a to a day.
DateWritten(a) ==
    /\ DiskDate(disk', a) # None
    /\ DiskDate(disk', a) # DiskDate(disk, a)

----------------------------------------------------------------------------
(* C13 *)

\* The step is the death of the process inside the _save_anchors of the call
\* the primed `last` records, followed by the start of a new process.
CrashStep ==
    /\ last'.out = "crash"
    /\ CrashInSave(last'.op, last'.acct, last'.arg[1], disk')

\* C13: when the process dies inside _save_anchors, the store loaded from the
\* file afterwards holds the complete map of before the mutation (as it was in
\* memory or on disk) or the complete map of after it.
C13_SaveIsAtomic ==
    [][ CrashStep
        => LET a == last'.acct
               m == get_anchors(anchors, a)
               post == [m EXCEPT ![a] =
                           Mutated(last'.op, m[a], last'.arg[1], Today(now))]
           IN  anchors' \in {anchors, m, LoadAnchors(disk), post} ]_vars

----------------------------------------------------------------------------
(* C14 *)

\* The folds a call has just made: one entry for each account it folded, with
\* the day of the fold; no restart has followed yet.
Folded(ids, t) ==
    [ i \in DOMAIN ids |-> [acct |-> ids[i], day |-> Today(t), restarted |-> FALSE] ]

\* Folds, later writes, restarts and polls with reliable writes; the history
\* holds the latest folds and whether the process was restarted since.
NextRestart ==
    \/ \E a \in Monitored, e \in Money :
          /\ AnchorsStore_perform_rollover(a, e)
          /\ trace' = Folded(<<a>>, now)
    \/ \E accounts \in ActiveLists(Monitored) :
          /\ RolloverService_perform_rollover_if_needed(accounts)
          /\ trace' = IF last'.rolled = <<>> THEN trace ELSE Folded(last'.rolled, now)
    \/ \E a \in Monitored, e \in {MaxMoney} :
          AnchorsStore_update_intraday_high(a, e) /\ UNCHANGED trace
    \/ \E a \in Monitored, l \in BOOLEAN :
          AnchorsStore_set_locked_out(a, l) /\ UNCHANGED trace
    \/ /\ Restart
       /\ trace' = [ i \in DOMAIN trace |-> [trace[i] EXCEPT !.restarted = TRUE] ]
    \/ AdvanceClock /\ UNCHANGED trace

SpecRestart == Init /\ [][NextRestart]_vars

\* C14: once an account has been folded for a day and the process has been
\* restarted since, is_rollover_needed is false for it for the rest of that
\* day, and a poll on that day does not fold it again.
C14_NoSecondFoldAfterRestart ==
    [][ /\ \A i \in DOMAIN trace' :
              (trace'[i].restarted /\ trace'[i].day = Today(now'))
              => ~is_rollover_needed(anchors', trace'[i].acct, now')
        /\ \A i \in DOMAIN trace :
              (trace[i].restarted /\ trace[i].day = Today(now) /\ PollStep)
              => /\ trace[i].acct \notin Range(last'.rolled)
                 /\ Rec(anchors', trace[i].acct) = Rec(anchors, trace[i].acct) ]_vars

\* Account 1 was folded today, the process was restarted, and a poll of the
\* new process inside the cutover window has passed the rate limit and folded
\* nothing.
C14_Witness ==
    /\ trace # <<>>
    /\ trace[1].acct = 1
    /\ trace[1].restarted
    /\ trace[1].day = Today(now)
    /\ last.op = "perform_rollover_if_needed"
    /\ 1 \in Ids(last.arg)
    /\ last_rollover_check = now
    /\ is_rollover_time(now)
    /\ last.rolled = <<>>

----------------------------------------------------------------------------
(* C15 *)

\* The records a store can hold for account a.
Records(a) ==
    { [ account_id |-> a,
        starting_balance |-> sb,
        eod_high_anchor |-> h,
        intraday_high_today |-> i,
        last_rollover_date |-> d,
        locked_out |-> l ] :
      sb \in {0, MaxMoney + 1}, h \in Money,
      i \in {None, Some(0), Some(MaxMoney)},
      d \in {None, Some(MaxDay)}, l \in BOOLEAN }

\* The maps a store can hold.
Maps ==
    UNION { { m \in [S -> UNION { Records(a) : a \in S }] :
                \A a \in S : m[a].account_id = a } : S \in SUBSET Accounts }

\* Entries of a document: as to_dict writes them, with only the account_id
\* (the other keys take their defaults), and without account_id.
Entries ==
    UNION { { to_dict(NewAnchors(a)),
              to_dict([NewAnchors(a) EXCEPT
                          !.eod_high_anchor = MaxMoney,
                          !.intraday_high_today = Some(0),
                          !.last_rollover_date = Some(MaxDay),
                          !.locked_out = TRUE]),
              [account_id |-> a],
              [starting_balance |-> a] } : a \in Accounts }

\* The files a store can be constructed over: none, an unreadable one, and
\* the JSON objects over the keys "1", "2" and "x" with those entries.
Files ==
    {None, Unparseable}
        \cup UNION { { Some(doc) : doc \in [K -> Entries] } :
                       K \in SUBSET {"1", "2", "x"} }

\* _save_anchors of the map in memory, with a write that succeeds.
Save ==
    /\ disk' = SaveAnchors(anchors)
    /\ last' = Call("_save_anchors", 0, <<>>, "ok", <<>>)
    /\ UNCHANGED <<anchors, now, last_rollover_check>>

\* A store holding any map and no file, or no store yet and any file.
InitDocument ==
    /\ \/ anchors \in Maps /\ disk = None
       \/ anchors = <<>> /\ disk \in Files
    /\ now \in { t \in Instants : \A u \in Instants : t >= u }
    /\ last_rollover_check = InitialRolloverCheck
    /\ last = Call("init", 0, <<>>, "ok", <<>>)
    /\ trace = <<>>

\* Saves, constructions of a new store, and the store's mutators on either
\* account.
NextDocument ==
    \/ Save /\ UNCHANGED trace
    \/ Restart /\ UNCHANGED trace
    \/ \E op \in StoreOps, a \in Accounts : \E arg \in FaultArgs(op) :
          StoreCall(op, a, arg) /\ UNCHANGED trace

SpecDocument == InitDocument /\ [][NextDocument]_vars

\* The step is the construction of a new store over the file.
RestartStep == last'.op = "restart" /\ Restart

\* C15: a new store constructed over the document that _save_anchors has just
\* written holds the same accounts as the saved map, and for each of them a
\* record with the same account_id, starting_balance, eod_high_anchor,
\* intraday_high_today (None included), last_rollover_date and locked_out.
C15_SaveLoadRoundTrip ==
    [][ (RestartStep /\ last.op = "_save_anchors")
        => /\ DOMAIN anchors' = DOMAIN anchors
           /\ \A a \in DOMAIN anchors :
                 /\ anchors'[a].account_id = anchors[a].account_id
                 /\ anchors'[a].starting_balance = anchors[a].starting_balance
                 /\ anchors'[a].eod_high_anchor = anchors[a].eod_high_anchor
                 /\ anchors'[a].intraday_high_today = anchors[a].intraday_high_today
                 /\ anchors'[a].last_rollover_date = anchors[a].last_rollover_date
                 /\ anchors'[a].locked_out = anchors[a].locked_out ]_vars

\* A store was constructed over a saved document of two accounts, one without
\* an intraday high and locked out, the other with an intraday high and a
\* rollover date.
C15_Witness ==
    /\ last.op = "restart"
    /\ DOMAIN anchors = Accounts
    /\ disk = Some(Document(anchors))
    /\ anchors[1].intraday_high_today = None
    /\ anchors[1].locked_out
    /\ anchors[1].starting_balance = MaxMoney + 1
    /\ anchors[2].intraday_high_today = Some(MaxMoney)
    /\ anchors[2].last_rollover_date = Some(MaxDay)

----------------------------------------------------------------------------
(* C16 *)

\* The step is the store mutator the primed `last` records, returning
\* without error.
StoreCallStep ==
    /\ last'.op \in StoreOps
    /\ last'.out = "ok"
    /\ StoreCall(last'.op, last'.acct, last'.arg[1])

\* C16: after a store mutator that returns without error, the file holds the
\* document of the whole in-memory map: the same accounts, and for each the
\* record that is in memory.
C16_WriteThrough ==
    [][ StoreCallStep
        => /\ disk' # None
           /\ disk' # Unparseable
           /\ DOMAIN disk'[1] = { IdKey(a) : a \in DOMAIN anchors' }
           /\ \A a \in DOMAIN anchors' : disk'[1][IdKey(a)] = to_dict(anchors'[a]) ]_vars

\* A mutator on account 1 has returned; the store also holds account 2, with
\* an intraday high, and the file holds both.
C16_Witness ==
    /\ last.op \in StoreOps
    /\ last.out = "ok"
    /\ last.acct = 1
    /\ DOMAIN anchors = Accounts
    /\ anchors[2].intraday_high_today # None
    /\ LoadAnchors(disk) = anchors

----------------------------------------------------------------------------
(* C17 *)

\* The step is a call of the store's update_eod_high_anchor that returns or
\* raises, made with the arguments the primed `last` records.
UpdateEodStep ==
    /\ last'.op = "update_eod_high_anchor"
    /\ \/ AnchorsStore_update_eod_high_anchor(last'.acct, last'.arg[1])
       \/ AnchorsStore_failed_write(last'.op, last'.acct, last'.arg[1], disk')

\* C17: update_eod_high_anchor with a candidate that does not exceed the
\* stored anchor changes neither the record in memory nor the file, and makes
\* no write that could fail.
C17_NoWriteWithoutRaise ==
    [][ ( /\ UpdateEodStep
          /\ last'.arg[1] <= Rec(anchors, last'.acct).eod_high_anchor )
        => /\ Rec(anchors', last'.acct) = Rec(anchors, last'.acct)
           /\ disk' = disk
           /\ last'.out = "ok" ]_vars

----------------------------------------------------------------------------
(* C18 *)

\* C18: a store constructed over no file, over an unreadable file, or over a
\* JSON object with a key that is not an account id or an entry without
\* account_id, is constructed without error and holds no account, whatever
\* well-formed entries the object also has.
C18_LoadOfBadFileIsEmpty ==
    [][ (RestartStep /\ (disk = None \/ LoadRaises(disk)))
        => /\ anchors' = <<>>
           /\ last'.out = "ok" ]_vars

\* A store was constructed over a document whose entry "1" is well formed and
\* whose entry "2" has no account_id: it holds no account.
C18_Witness ==
    /\ last.op = "restart"
    /\ disk # None
    /\ disk # Unparseable
    /\ DOMAIN disk[1] = {"1", "2"}
    /\ disk[1]["1"] = to_dict(NewAnchors(1))
    /\ "account_id" \notin DOMAIN disk[1]["2"]
    /\ anchors = <<>>

----------------------------------------------------------------------------
(* C19 *)

\* The step is the store mutator the primed `last` records, its write failing.
FailedWriteStep ==
    /\ last'.op \in StoreOps
    /\ AnchorsStore_failed_write(last'.op, last'.acct, last'.arg[1], disk')

\* C19: a store mutator whose write fails raises RiskManagerError; the map in
\* memory is the one the mutation produces, and the file is the old one or an
\* unreadable one.
C19_FailedWriteRaisesAndKeepsMutation ==
    [][ FailedWriteStep
        => LET a == last'.acct
               m == get_anchors(anchors, a)
           IN  /\ last'.out = "RiskManagerError"
               /\ anchors' = [m EXCEPT ![a] =
                                 Mutated(last'.op, m[a], last'.arg[1], Today(now))]
               /\ disk' \in {disk, Unparseable} ]_vars

\* perform_rollover on account 1 has raised RiskManagerError: the record in
\* memory is folded today, the file still holds the record without the date.
C19_Witness ==
    /\ last.op = "perform_rollover"
    /\ last.out = "RiskManagerError"
    /\ last.acct = 1
    /\ FoldedToday(anchors, 1, now)
    /\ DiskRec(disk, 1) # None
    /\ DiskDate(disk, 1) = None

----------------------------------------------------------------------------
(* C20 *)

\* The step is the service operation the primed `last` records, with a write
\* of the store failing inside it.
ServiceFailedWriteStep ==
    \/ /\ last'.op = "perform_rollover_if_needed"
       /\ RolloverService_perform_rollover_if_needed_failed_write(last'.arg, disk')
    \/ /\ last'.op = "RolloverService.update_intraday_high"
       /\ RolloverService_update_intraday_high_failed_write(
              last'.acct, last'.arg[1], disk')
    \/ /\ last'.op = "initialize_account_anchors"
       /\ \E n \in 1..2 :
             RolloverService_initialize_account_anchors_failed_write(
                 last'.acct, last'.arg[1], last'.arg[2], n, disk')

\* C20: a service operation in which a write of the store fails ends with an
\* error raised to its caller; it does not return normally.
C20_ServicePropagatesWriteFailure ==
    [][ ServiceFailedWriteStep => last'.out # "ok" ]_vars

----------------------------------------------------------------------------
(* C21 *)

\* AnchorsStore.get_anchors called on its own: the record is created in
\* memory when the id is unseen, and nothing is saved.
AnchorsStore_get_anchors(a) ==
    /\ anchors' = get_anchors(anchors, a)
    /\ last' = Call("get_anchors", a, <<>>, "ok", <<>>)
    /\ UNCHANGED <<disk, now, last_rollover_check>>

\* Lookups on either account, from any map; the history holds whether the
\* id of the latest lookup was known before it.
NextLookup ==
    \E a \in Accounts :
        /\ AnchorsStore_get_anchors(a)
        /\ trace' = <<[acct |-> a, known |-> a \in DOMAIN anchors]>>

SpecLookup == InitDocument /\ [][NextLookup]_vars

GetAnchorsStep ==
    /\ last'.op = "get_anchors"
    /\ AnchorsStore_get_anchors(last'.acct)

\* C21: get_anchors returns without error; for an unseen id the map gains a
\* record with starting_balance 0, eod_high_anchor 0, no intraday high, no
\* rollover date and locked_out false; for a known id the record is unchanged;
\* the records of all other accounts are unchanged and none is added or removed.
C21_GetOrCreate ==
    [][ GetAnchorsStep
        => LET a == last'.acct IN
           /\ last'.out = "ok"
           /\ DOMAIN anchors' = DOMAIN anchors \cup {a}
           /\ a \notin DOMAIN anchors
              => anchors'[a] =
                    [ account_id |-> a,
                      starting_balance |-> 0,
                      eod_high_anchor |-> 0,
                      intraday_high_today |-> None,
                      last_rollover_date |-> None,
                      locked_out |-> FALSE ]
           /\ a \in DOMAIN anchors => anchors'[a] = anchors[a]
           /\ \A b \in DOMAIN anchors : b # a => anchors'[b] = anchors[b] ]_vars

\* Account 2 was unseen and has just been looked up, beside a record of
\* account 1 that is not the default one.
C21_Witness ==
    /\ last.op = "get_anchors"
    /\ last.acct = 2
    /\ trace = <<[acct |-> 2, known |-> FALSE]>>
    /\ DOMAIN anchors = Accounts
    /\ anchors[2].starting_balance = 0
    /\ anchors[1].starting_balance > 0
    /\ anchors[1].locked_out

----------------------------------------------------------------------------
(* C22 *)

\* Mutant: the start-up step initializes every account from a new record.
Mutant_Bootstrap_from_new_record(a, balance, starting_balance) ==
    LET r1 == AccountAnchors_set_starting_balance(NewAnchors(a), starting_balance)
        r2 == AccountAnchors_update_eod_high_anchor(r1, balance)
    IN
    /\ anchors' = [ b \in DOMAIN anchors \cup {a} |-> IF b = a THEN r2 ELSE anchors[b] ]
    /\ disk' = SaveAnchors(anchors')
    /\ last' = Call("main", a, <<balance, starting_balance>>, "ok", <<>>)
    /\ UNCHANGED <<now, last_rollover_check>>

\* run.py's start-up step for one account: the record is looked up and, when
\* its starting_balance is 0.0, initialize_account_anchors is called with the
\* account's balance and the configured starting balance.
Bootstrap(a, balance, starting_balance) ==
    LET m == get_anchors(anchors, a)
        r1 == AccountAnchors_set_starting_balance(m[a], starting_balance)
        r2 == AccountAnchors_update_eod_high_anchor(r1, balance)
        new == m[a].starting_balance = 0
    IN
    /\ anchors' = IF new THEN [m EXCEPT ![a] = r2] ELSE m
    /\ disk' = IF new THEN SaveAnchors(anchors') ELSE disk
    /\ last' = Call("main", a, <<balance, starting_balance>>, "ok", <<>>)
    /\ UNCHANGED <<now, last_rollover_check>>

\* The account has no record, or the record a lookup has just created.
BrandNew(m, a) == a \notin DOMAIN m \/ m[a] = NewAnchors(a)

\* A process that has just loaded its store: any map of the monitored
\* account, and the file that holds it.
InitBootstrap ==
    /\ anchors \in { m \in Maps : DOMAIN m \subseteq Monitored }
    /\ disk = IF DOMAIN anchors = {} THEN None ELSE SaveAnchors(anchors)
    /\ now \in { t \in Instants : \A u \in Instants : t >= u }
    /\ last_rollover_check = InitialRolloverCheck
    /\ last = Call("init", 0, <<>>, "ok", <<>>)
    /\ trace = <<>>

\* initialize_account_anchors and the start-up step, with any balance and any
\* starting balance; the history holds the record the latest call found.
NextBootstrap ==
    \/ \E a \in Monitored, c \in Candidates, b \in StartingBalances :
          /\ RolloverService_initialize_account_anchors(a, c, b)
          /\ trace' = <<get_anchors(anchors, a)[a]>>
    \/ \E a \in Monitored, c \in Candidates, b \in StartingBalances :
          /\ Bootstrap(a, c, b)
          /\ trace' = <<get_anchors(anchors, a)[a]>>

SpecBootstrap == InitBootstrap /\ [][NextBootstrap]_vars

InitializeStep ==
    /\ last'.op = "initialize_account_anchors"
    /\ RolloverService_initialize_account_anchors(
           last'.acct, last'.arg[1], last'.arg[2])

----------------------------------------------------------------------------
(* C23 *)

BootstrapStep ==
    /\ last'.op = "main"
    /\ Bootstrap(last'.acct, last'.arg[1], last'.arg[2])

\* C23: the start-up step on an account whose persisted record has a set
\* starting balance leaves the record's starting_balance, intraday_high_today,
\* last_rollover_date and locked_out as they were and does not lower its
\* eod_high_anchor.
C23_BootstrapKeepsPriorState ==
    [][ ( /\ BootstrapStep
          /\ DiskRec(disk, last'.acct) = Some(Rec(anchors, last'.acct))
          /\ Rec(anchors, last'.acct).starting_balance # 0 )
        => LET r == Rec(anchors, last'.acct)
               q == Rec(anchors', last'.acct)
           IN  /\ q.starting_balance = r.starting_balance
               /\ q.intraday_high_today = r.intraday_high_today
               /\ q.last_rollover_date = r.last_rollover_date
               /\ q.locked_out = r.locked_out
               /\ q.eod_high_anchor >= r.eod_high_anchor ]_vars

\* The start-up step has just run on account 1, whose record held a starting
\* balance, an intraday high, a rollover date and a lockout, with a balance
\* above the anchor and another starting balance: the record is as it was.
C23_Witness ==
    /\ last.op = "main"
    /\ trace = <<anchors[1]>>
    /\ anchors[1].starting_balance = MaxMoney + 1
    /\ anchors[1].intraday_high_today # None
    /\ anchors[1].last_rollover_date # None
    /\ anchors[1].locked_out
    /\ last.arg[1] > anchors[1].eod_high_anchor
    /\ last.arg[2] = 1
    /\ DiskRec(disk, 1) = Some(anchors[1])

----------------------------------------------------------------------------
(* C24 *)

\* The calls of the history that were not made on account a.
RECURSIVE NotOn(_, _)
NotOn(t, a) ==
    IF t = <<>> THEN <<>>
    ELSE IF Head(t).acct = a
         THEN NotOn(Tail(t), a)
         ELSE <<Head(t)>> \o NotOn(Tail(t), a)

\* Observations of equity, raises of the anchor and rollovers on either
\* account; the history holds, for each account, the update_intraday_high
\* calls made since its last rollover.
NextIntraday ==
    \/ \E a \in Accounts, e \in Candidates :
          /\ Len(trace) < MaxCalls
          /\ AnchorsStore_update_intraday_high(a, e)
          /\ trace' = Append(trace, last')
    \/ \E a \in Accounts, e \in {0} :
          /\ AnchorsStore_perform_rollover(a, e)
          /\ trace' = NotOn(trace, a)
    \/ \E a \in Accounts, b \in {MaxMoney} :
          AnchorsStore_update_eod_high_anchor(a, b) /\ UNCHANGED trace

\* A new store, at the last instant of the model.
InitIntraday == Init /\ \A u \in Instants : now >= u

SpecIntraday == InitIntraday /\ [][NextIntraday]_vars

\* C24: for every account, intraday_high_today is absent when
\* update_intraday_high has not been called since the account's last rollover
\* (or since the record was created), and otherwise it is the largest equity
\* passed since then, negative and zero equities included.
C24_IntradayHighIsMaxSinceRollover ==
    \A a \in Accounts :
        LET obs == ArgsOn(trace, a) IN
        Rec(anchors, a).intraday_high_today =
            IF obs = <<>> THEN None ELSE Some(MaxOf(Range(obs)))

\* Account 1 has been rolled over today and three equities were observed
\* since, the first one negative and the last one below the largest.
C24_Witness ==
    /\ FoldedToday(anchors, 1, now)
    /\ ArgsOn(trace, 1) = <<0 - 1, MaxMoney, 0>>
    /\ anchors[1].intraday_high_today = Some(MaxMoney)

----------------------------------------------------------------------------
(* C25 *)

\* The step is a call of the store's perform_rollover that returns or raises.
RolloverCallStep ==
    /\ last'.op = "perform_rollover"
    /\ \/ AnchorsStore_perform_rollover(last'.acct, last'.arg[1])
       \/ AnchorsStore_failed_write(last'.op, last'.acct, last'.arg[1], disk')

\* C25: after perform_rollover, called directly or by a poll, the record has
\* locked_out false and no intraday high, whatever they were and whether or
\* not the anchor changed.
C25_RolloverResetsDailyState ==
    [][ /\ RolloverCallStep
           => /\ anchors'[last'.acct].locked_out = FALSE
              /\ anchors'[last'.acct].intraday_high_today = None
        /\ PollStep
           => \A a \in Range(last'.rolled) :
                 /\ anchors'[a].locked_out = FALSE
                 /\ anchors'[a].intraday_high_today = None ]_vars

\* perform_rollover has run on account 1 and its write failed: the file still
\* shows the record as it was, locked out, with an intraday high not above
\* the anchor; in memory the anchor is the same and the daily state is reset.
C25_Witness ==
    /\ last.op = "perform_rollover"
    /\ last.out = "RiskManagerError"
    /\ DiskRec(disk, 1) # None
    /\ DiskRec(disk, 1)[1].locked_out
    /\ DiskRec(disk, 1)[1].intraday_high_today = Some(MaxMoney)
    /\ DiskRec(disk, 1)[1].eod_high_anchor = MaxMoney
    /\ DiskDate(disk, 1) = None
    /\ anchors[1].eod_high_anchor = MaxMoney
    /\ anchors[1].locked_out = FALSE
    /\ anchors[1].intraday_high_today = None

----------------------------------------------------------------------------
(* C26 *)

\* Two accounts get records in the store through its mutators; the polls
\* receive what get_active_accounts returns, which is any part of the
\* repository's accounts. The clock starts inside the cutover minute.
NextKnown ==
    \/ \E a \in Accounts, b \in {MaxMoney} :
          AnchorsStore_update_eod_high_anchor(a, b) /\ UNCHANGED trace
    \/ \E a \in Accounts, e \in {0, MaxMoney} :
          AnchorsStore_update_intraday_high(a, e) /\ UNCHANGED trace
    \/ \E accounts \in ActiveLists(Accounts) :
          RolloverService_perform_rollover_if_needed(accounts) /\ UNCHANGED trace
    \/ AdvanceClock /\ UNCHANGED trace

SpecKnown == InitFaults /\ [][NextKnown]_vars

\* C26: a poll that passes the rate limit inside the cutover minute folds
\* every account that has a record in the store and is due, active or not.
C26_PollFoldsEveryKnownAccount ==
    [][ ( /\ PollStep
          /\ should_check_rollover(now, last_rollover_check)
          /\ is_rollover_time(now) )
        => \A a \in DOMAIN anchors :
              is_rollover_needed(anchors, a, now) => FoldedToday(anchors', a, now) ]_vars

----------------------------------------------------------------------------
(* C27 *)

\* Two threads call the store's mutators on account 1 of one AnchorsStore.
\* The methods take no lock, so a thread can be preempted between the
\* statements of a method. In SpecThreads `trace` holds, for each thread, the
\* call it is making, the statement it has reached and the value it holds in
\* a local variable.
Threads == {1, 2}

ThreadOps == { "update_eod_high_anchor", "update_intraday_high", "perform_rollover" }

ThreadArgs(op) ==
    CASE op = "update_eod_high_anchor" -> {MaxMoney, MaxMoney + 1}
      [] op = "update_intraday_high" -> {0, MaxMoney}
      [] op = "perform_rollover" -> {0}

Idle == [op |-> "none", arg |-> 0, pc |-> "idle", value |-> 0]

\* The thread enters the method: get_anchors, and for perform_rollover the
\* read of `anchors.intraday_high_today or current_equity` into intraday_high.
ThreadCall(t, op, arg) ==
    LET m == get_anchors(anchors, 1) IN
    /\ trace[t].pc = "idle"
    /\ anchors' = m
    /\ trace' = [trace EXCEPT ![t] =
          [op |-> op, arg |-> arg, pc |-> "test",
           value |-> IF op = "perform_rollover" THEN IntradayHighOr(m[1], arg) ELSE arg]]
    /\ UNCHANGED <<disk, now, last_rollover_check, last>>

\* The `if` of update_eod_high_anchor or update_intraday_high.
ThreadTest(t) ==
    LET th == trace[t]
        r == anchors[1]
        higher == IF th.op = "update_intraday_high"
                  THEN r.intraday_high_today = None \/ th.value > r.intraday_high_today[1]
                  ELSE th.value > r.eod_high_anchor
    IN
    /\ th.pc = "test"
    /\ trace' = [trace EXCEPT ![t].pc =
          IF higher THEN "assign"
          ELSE IF th.op = "perform_rollover" THEN "reset" ELSE "save"]
    /\ UNCHANGED <<anchors, disk, now, last_rollover_check, last>>

\* The assignment inside the `if`.
ThreadAssign(t) ==
    LET th == trace[t] IN
    /\ th.pc = "assign"
    /\ anchors' = IF th.op = "update_intraday_high"
                  THEN [anchors EXCEPT ![1].intraday_high_today = Some(th.value)]
                  ELSE [anchors EXCEPT ![1].eod_high_anchor = th.value]
    /\ trace' = [trace EXCEPT ![t].pc =
          IF th.op = "perform_rollover" THEN "reset" ELSE "save"]
    /\ UNCHANGED <<disk, now, last_rollover_check, last>>

\* perform_rollover after the raise: reset_intraday_high, set_locked_out(False)
\* and the assignment of last_rollover_date.
ThreadReset(t) ==
    LET r2 == AccountAnchors_reset_intraday_high(anchors[1])
        r3 == AccountAnchors_set_locked_out(r2, FALSE)
    IN
    /\ trace[t].pc = "reset"
    /\ anchors' = [anchors EXCEPT ![1] = [r3 EXCEPT !.last_rollover_date = Some(Today(now))]]
    /\ trace' = [trace EXCEPT ![t].pc = "save"]
    /\ UNCHANGED <<disk, now, last_rollover_check, last>>

\* _save_anchors, and the return of the method.
ThreadSave(t) ==
    LET th == trace[t] IN
    /\ th.pc = "save"
    /\ disk' = SaveAnchors(anchors)
    /\ last' = Call(th.op, 1, <<th.arg>>, "ok", <<>>)
    /\ trace' = [trace EXCEPT ![t].pc = "done"]
    /\ UNCHANGED <<anchors, now, last_rollover_check>>

InitThreads ==
    /\ anchors = <<>>
    /\ disk = None
    /\ now \in { t \in Instants : \A u \in Instants : t >= u }
    /\ last_rollover_check = InitialRolloverCheck
    /\ last = Call("init", 0, <<>>, "ok", <<>>)
    /\ trace = [t \in Threads |-> Idle]

NextThreads ==
    \/ \E t \in Threads, op \in ThreadOps : \E arg \in ThreadArgs(op) : ThreadCall(t, op, arg)
    \/ \E t \in Threads : ThreadTest(t)
    \/ \E t \in Threads : ThreadAssign(t)
    \/ \E t \in Threads : ThreadReset(t)
    \/ \E t \in Threads : ThreadSave(t)

SpecThreads == InitThreads /\ [][NextThreads]_vars

\* The record of a new store after the calls of threads t1 then t2, one
\* after the other.
OneAfterTheOther(t1, t2) ==
    LET r1 == Mutated(trace[t1].op, NewAnchors(1), trace[t1].arg, Today(now))
    IN  Mutated(trace[t2].op, r1, trace[t2].arg, Today(now))

\* C27: when both threads' calls have returned, the record is the one that
\* some sequential order of the two calls leaves.
C27_InterleavingsAreSerializable ==
    (\A t \in Threads : trace[t].pc = "done")
        => \E t1, t2 \in Threads :
              /\ t1 # t2
              /\ anchors[1] = OneAfterTheOther(t1, t2)

----------------------------------------------------------------------------
(* MLLEngine *)

\* Amounts of the engine are counted in hundredths of the currency unit, the
\* size of epsilon.
Hundredths == 100
epsilon == 1
Percent == 100

Units(u) == u * Hundredths

\* MLL_LIMITS, by account size.
MLL_LIMITS ==
    (Units(50000) :> Units(2000)) @@ (Units(100000) :> Units(3000))
        @@ (Units(150000) :> Units(4500))

get_plan_size(starting_balance) ==
    IF starting_balance <= Units(50000) THEN "50K"
    ELSE IF starting_balance <= Units(100000) THEN "100K"
    ELSE "150K"

\* Mutant: the breakpoints belong to the tier above.
Mutant_get_base_mll_strict(starting_balance) ==
    IF starting_balance < Units(50000) THEN MLL_LIMITS[Units(50000)]
    ELSE IF starting_balance < Units(100000) THEN MLL_LIMITS[Units(100000)]
    ELSE MLL_LIMITS[Units(150000)]

get_base_mll(starting_balance) ==
    IF starting_balance <= Units(50000) THEN MLL_LIMITS[Units(50000)]
    ELSE IF starting_balance <= Units(100000) THEN MLL_LIMITS[Units(100000)]
    ELSE MLL_LIMITS[Units(150000)]

\* Mutant: the floor is always the starting balance.
Mutant_Min_first(x, y) == x

Min(x, y) == IF x <= y THEN x ELSE y

\* The quotient n / d, kept as its two terms.
Quotient(n, d) == [num |-> n, den |-> d]

\* Mutant: only a negative anchor counts as missing.
Mutant_missing_anchor_negative_only(eod_high_anchor) == eod_high_anchor < 0

\* `if eod_high_anchor <= 0`
missing_anchor(eod_high_anchor) == eod_high_anchor <= 0

\* Mutant: the comparison with the floor has no epsilon.
Mutant_mll_blown_no_epsilon(current_equity, floor) == current_equity <= floor

\* `if current_equity <= (floor + epsilon)`
mll_blown(current_equity, floor) == current_equity <= floor + epsilon

\* Mutant: the operands of the subtraction are exchanged.
Mutant_used_from_equity(eod_high_anchor, current_equity) ==
    current_equity - eod_high_anchor

\* `used = eod_high_anchor - current_equity`
loss_used(eod_high_anchor, current_equity) == eod_high_anchor - current_equity

\* calculate_mll: the MLLResult it returns.
calculate_mll(account_id, starting_balance, eod_high_anchor, current_equity) ==
    LET plan_size == get_plan_size(starting_balance)
        base_mll == get_base_mll(starting_balance)
        given == [ account_id |-> account_id,
                   plan_size |-> plan_size,
                   starting_balance |-> starting_balance,
                   eod_high_anchor |-> eod_high_anchor,
                   base_mll |-> base_mll,
                   current_equity |-> current_equity ]
    IN  IF missing_anchor(eod_high_anchor)
        THEN given @@ [ floor |-> None, used |-> None, remaining |-> None,
                        pct_used |-> None,
                        status |-> "UNKNOWN", reason |-> "missing_anchor" ]
        ELSE LET raw_floor == eod_high_anchor - base_mll
                 floor == Min(starting_balance, raw_floor)
                 used == loss_used(eod_high_anchor, current_equity)
                 remaining == base_mll - used
                 pct_used == IF base_mll > 0
                             THEN Quotient(used * Percent, base_mll)
                             ELSE Quotient(0, 1)
                 blown == mll_blown(current_equity, floor)
             IN  given @@ [ floor |-> Some(floor), used |-> Some(used),
                            remaining |-> Some(remaining),
                            pct_used |-> Some(pct_used),
                            status |-> IF blown THEN "BLOWN" ELSE "ALIVE",
                            reason |-> IF blown THEN "mll_blown" ELSE "within_limits" ]

\* Starting balances at and just above the sizes of the plans, and zero.
StartingBalanceInputs ==
    { 0, Units(50000), Units(50000) + 1, Units(100000), Units(100000) + 1, Units(150000) }

\* Anchors: negative, zero, the smallest positive amount, and amounts below,
\* at and above the starting balances.
AnchorInputs ==
    { 0 - 1, 0, 1, Units(1000), Units(50000), Units(52000), Units(52000) + 1,
      Units(101000), Units(103000), Units(154500) }

\* Equities: around every floor the inputs give, and some away from them.
EquityInputs ==
    UNION { { Min(sb, a - get_base_mll(sb)) + d : d \in {0 - 1, 0, 1, 2} } :
            sb \in StartingBalanceInputs, a \in AnchorInputs }
      \cup { 0, Units(49000), Units(49500), Units(100500) }

\* A call of calculate_mll; `trace` holds the result it returned.
MLLEngine_calculate_mll(a, starting_balance, eod_high_anchor, current_equity) ==
    /\ last' = Call("calculate_mll", a,
                    <<starting_balance, eod_high_anchor, current_equity>>, "ok", <<>>)
    /\ trace' = <<calculate_mll(a, starting_balance, eod_high_anchor, current_equity)>>
    /\ UNCHANGED <<anchors, disk, now, last_rollover_check>>

\* The engine holds no state: a caller has the arguments of its call at hand.
InitMLL ==
    /\ anchors = <<>>
    /\ disk = None
    /\ now \in { t \in Instants : \A u \in Instants : t >= u }
    /\ last_rollover_check = InitialRolloverCheck
    /\ \E a \in Monitored, sb \in StartingBalanceInputs, h \in AnchorInputs, e \in EquityInputs :
          last = Call("caller", a, <<sb, h, e>>, "ok", <<>>)
    /\ trace = <<>>

NextMLL ==
    MLLEngine_calculate_mll(last.acct, last.arg[1], last.arg[2], last.arg[3])

SpecMLL == InitMLL /\ [][NextMLL]_vars

\* A call of calculate_mll has returned.
Calculated == last.op = "calculate_mll" /\ last.out = "ok"

----------------------------------------------------------------------------
(* C28 *)

\* C28: with an anchor that is zero or negative, calculate_mll returns a
\* result with status UNKNOWN, reason missing_anchor, and no floor, used,
\* remaining or pct_used, for every starting balance and equity.
C28_MissingAnchorIsUnknown ==
    (last.op = "calculate_mll" /\ last.arg[2] <= 0)
        => /\ Calculated
           /\ trace[1].status = "UNKNOWN"
           /\ trace[1].reason = "missing_anchor"
           /\ trace[1].floor = None
           /\ trace[1].used = None
           /\ trace[1].remaining = None
           /\ trace[1].pct_used = None

\* calculate_mll(50000, 0, 49000) has returned UNKNOWN.
C28_Witness ==
    /\ Calculated
    /\ last.arg = <<Units(50000), 0, Units(49000)>>
    /\ trace[1].status = "UNKNOWN"
    /\ trace[1].floor = None

----------------------------------------------------------------------------
(* C29 *)

\* C29: with a positive anchor, the floor is the smaller of the starting
\* balance and the anchor less the base limit, and the status is BLOWN exactly
\* when the equity is at most the floor plus epsilon, ALIVE otherwise.
C29_FloorAndStatus ==
    (last.op = "calculate_mll" /\ last.arg[2] > 0)
        => LET sb == last.arg[1]
               floor == Min(sb, last.arg[2] - get_base_mll(sb))
           IN  /\ Calculated
               /\ trace[1].floor = Some(floor)
               /\ trace[1].status = IF last.arg[3] <= floor + epsilon THEN "BLOWN" ELSE "ALIVE"

\* calculate_mll(50000, 52000, 49500): base limit 2000, floor 50000, BLOWN.
C29_Witness ==
    /\ Calculated
    /\ last.arg = <<Units(50000), Units(52000), Units(49500)>>
    /\ trace[1].base_mll = Units(2000)
    /\ trace[1].floor = Some(Units(50000))
    /\ trace[1].status = "BLOWN"

----------------------------------------------------------------------------
(* C30 *)

----------------------------------------------------------------------------
(* C31 *)

\* C31: the base limit is 2000 up to a starting balance of 50000, 3000 above
\* that up to 100000 and 4500 above that, and the plan size is 50K, 100K and
\* 150K at the same breakpoints.
C31_TierBreakpoints ==
    Calculated
        => LET sb == last.arg[1] IN
           /\ sb <= Units(50000)
                 => trace[1].base_mll = Units(2000) /\ trace[1].plan_size = "50K"
           /\ (Units(50000) < sb /\ sb <= Units(100000))
                 => trace[1].base_mll = Units(3000) /\ trace[1].plan_size = "100K"
           /\ Units(100000) < sb
                 => trace[1].base_mll = Units(4500) /\ trace[1].plan_size = "150K"

\* The engine has classified starting balances at a breakpoint and one
\* hundredth above it: 100000 is in the 100K tier with base limit 3000.
C31_Witness ==
    /\ Calculated
    /\ last.arg[1] = Units(100000)
    /\ trace[1].base_mll = Units(3000)
    /\ trace[1].plan_size = "100K"

----------------------------------------------------------------------------
(* C32 *)

\* q >= p for a quotient q with a positive second term.
AtLeast(q, p) == q.num >= p * q.den

\* Mutant: a threshold is passed only when it is exceeded.
Mutant_get_warning_level_strict(result) ==
    IF result.pct_used = None THEN None
    ELSE LET pct_used == result.pct_used[1] IN
         IF pct_used.num > 95 * pct_used.den THEN Some("CRITICAL")
         ELSE IF pct_used.num > 90 * pct_used.den THEN Some("HIGH")
         ELSE IF pct_used.num > 80 * pct_used.den THEN Some("MEDIUM")
         ELSE IF pct_used.num > 70 * pct_used.den THEN Some("LOW")
         ELSE None

\* get_warning_level: the level, or None.
get_warning_level(result) ==
    IF result.pct_used = None THEN None
    ELSE LET pct_used == result.pct_used[1] IN
         IF AtLeast(pct_used, 95) THEN Some("CRITICAL")
         ELSE IF AtLeast(pct_used, 90) THEN Some("HIGH")
         ELSE IF AtLeast(pct_used, 80) THEN Some("MEDIUM")
         ELSE IF AtLeast(pct_used, 70) THEN Some("LOW")
         ELSE None

\* Percentages of the base limit at and around the thresholds.
PctInputs == {0, 69, 70, 79, 80, 89, 90, 94, 95, 100, 101}

\* The caller passes the result of calculate_mll; `trace` then holds the
\* result and the level returned for it.
MLLEngine_get_warning_level ==
    /\ Len(trace) >= 1
    /\ last' = [last EXCEPT !.op = "get_warning_level"]
    /\ trace' = <<trace[1], get_warning_level(trace[1])>>
    /\ UNCHANGED <<anchors, disk, now, last_rollover_check>>

\* Calls whose equity puts the loss at a percentage of PctInputs of the base
\* limit, or one hundredth more or less.
InitWarning ==
    /\ anchors = <<>>
    /\ disk = None
    /\ now \in { t \in Instants : \A u \in Instants : t >= u }
    /\ last_rollover_check = InitialRolloverCheck
    /\ \E a \in Monitored, sb \in {Units(50000), Units(100000)},
          h \in {0, Units(52000), Units(101000)}, p \in PctInputs, d \in {0 - 1, 0, 1} :
          last = Call("caller", a,
                      <<sb, h, h - ((get_base_mll(sb) * p) \div Percent + d)>>, "ok", <<>>)
    /\ trace = <<>>

NextWarning ==
    \/ MLLEngine_calculate_mll(last.acct, last.arg[1], last.arg[2], last.arg[3])
    \/ MLLEngine_get_warning_level

SpecWarning == InitWarning /\ [][NextWarning]_vars

WarningStep == last'.op = "get_warning_level" /\ MLLEngine_get_warning_level

\* C32: get_warning_level returns CRITICAL from 95 percent used, HIGH from 90,
\* MEDIUM from 80, LOW from 70 and nothing below that or without a percentage,
\* and it leaves the result, its status included, as it was.
C32_WarningTiers ==
    [][ WarningStep
        => LET result == trace'[1]
               level == trace'[2]
               used == result.used[1]
               base == result.base_mll
           IN  /\ result = trace[1]
               /\ IF result.pct_used = None THEN level = None
                  ELSE IF used * Percent >= 95 * base THEN level = Some("CRITICAL")
                  ELSE IF used * Percent >= 90 * base THEN level = Some("HIGH")
                  ELSE IF used * Percent >= 80 * base THEN level = Some("MEDIUM")
                  ELSE IF used * Percent >= 70 * base THEN level = Some("LOW")
                  ELSE level = None ]_vars

\* An ALIVE result at exactly 95 percent used has got the level CRITICAL.
C32_Witness ==
    /\ last.op = "get_warning_level"
    /\ Len(trace) = 2
    /\ trace[1].status = "ALIVE"
    /\ trace[1].used[1] * Percent = 95 * trace[1].base_mll
    /\ trace[2] = Some("CRITICAL")

----------------------------------------------------------------------------
(* C33 *)

\* The step is a poll, with writes that succeed or that fail.
AnyPollStep ==
    /\ last'.op = "perform_rollover_if_needed"
    /\ \/ RolloverService_perform_rollover_if_needed(last'.arg)
       \/ RolloverService_perform_rollover_if_needed_failed_write(last'.arg, disk')

\* The poll has changed the record of account a: it differs from the record
\* the store held, or from a new record when the store held none.
ChangedByPoll(a) ==
    /\ a \in DOMAIN anchors'
    /\ anchors'[a] # (IF a \in DOMAIN anchors THEN anchors[a] ELSE NewAnchors(a))

\* C33: the list a poll returns names each account once, every account it
\* names was due before the poll and is not due after it, and every account
\* whose record the poll changed is in the list.
C33_ListIsExactlyTheFolded ==
    [][ AnyPollStep
        => /\ \A i, j \in DOMAIN last'.rolled :
                 last'.rolled[i] = last'.rolled[j] => i = j
           /\ \A a \in Range(last'.rolled) :
                 /\ ~FoldedToday(anchors, a, now)
                 /\ FoldedToday(anchors', a, now)
           /\ \A a \in Accounts : ChangedByPoll(a) => a \in Range(last'.rolled) ]_vars

----------------------------------------------------------------------------
(* C34 *)

\* C34: a poll that gets past the rate limit (it records its time, or folds)
\* comes at least rollover_check_interval after the one before it that did; a
\* poll that comes sooner returns an empty list and changes neither a record
\* nor the file nor the recorded time; the first poll of a service gets past.
C34_RateLimit ==
    [][ PollStep
        => /\ ( \/ last_rollover_check' # last_rollover_check
                \/ last'.rolled # <<>>
                \/ anchors' # anchors )
              => /\ now - last_rollover_check >= rollover_check_interval
                 /\ last_rollover_check' = now
           /\ now - last_rollover_check < rollover_check_interval
              => /\ last'.rolled = <<>>
                 /\ UNCHANGED <<anchors, disk, last_rollover_check>>
           /\ trace = <<>> => last_rollover_check' = now ]_vars

\* A poll outside the cutover minute got past the rate limit; the next one,
\* 30 s later and inside the minute, with account 1 due, returned an empty
\* list and left the recorded time alone.
C34_Witness ==
    /\ Len(trace) = 2
    /\ trace[2].at - trace[1].at = 30
    /\ is_rollover_time(trace[2].at)
    /\ trace[2].due = {1}
    /\ trace[2].call.rolled = <<>>
    /\ last_rollover_check = trace[1].at
    /\ ~FoldedToday(anchors, 1, now)

----------------------------------------------------------------------------
(* C35 *)

\* Mutant: the first failure ends the loop.
RECURSIVE Mutant_FailingLoop_stops(_, _, _, _, _, _, _)
Mutant_FailingLoop_stops(accounts, m, f, rolled, t, failing, truncated) ==
    IF accounts = <<>>
    THEN [m |-> m, f |-> f, rolled |-> rolled]
    ELSE LET account == Head(accounts)
             m1 == get_anchors(m, account.id)
             m2 == [m1 EXCEPT ![account.id] =
                       RolloverRecord(m1[account.id], account.display_equity, Today(t))]
         IN  IF ~is_rollover_needed(m, account.id, t)
             THEN Mutant_FailingLoop_stops(Tail(accounts), m1, f, rolled, t, failing, truncated)
             ELSE IF account.id \in failing
             THEN [m |-> m2, f |-> IF truncated THEN Unparseable ELSE f, rolled |-> rolled]
             ELSE Mutant_FailingLoop_stops(Tail(accounts), m2, SaveAnchors(m2),
                                           Append(rolled, account.id), t, failing, truncated)

\* The loop of perform_rollover_if_needed when perform_rollover raises for the
\* accounts of `failing` (their write fails, and leaves the file as it was
\* or truncated): the fold is done in memory, the error is logged, the id is
\* not appended, and the loop goes on. The map, the file and the list it leaves.
RECURSIVE FailingLoop(_, _, _, _, _, _, _)
FailingLoop(accounts, m, f, rolled, t, failing, truncated) ==
    IF accounts = <<>>
    THEN [m |-> m, f |-> f, rolled |-> rolled]
    ELSE LET account == Head(accounts)
             m1 == get_anchors(m, account.id)
             m2 == [m1 EXCEPT ![account.id] =
                       RolloverRecord(m1[account.id], account.display_equity, Today(t))]
         IN  IF ~is_rollover_needed(m, account.id, t)
             THEN FailingLoop(Tail(accounts), m1, f, rolled, t, failing, truncated)
             ELSE IF account.id \in failing
             THEN FailingLoop(Tail(accounts), m2, IF truncated THEN Unparseable ELSE f,
                              rolled, t, failing, truncated)
             ELSE FailingLoop(Tail(accounts), m2, SaveAnchors(m2),
                              Append(rolled, account.id), t, failing, truncated)

RolloverService_perform_rollover_if_needed_some_fail(accounts, failing, truncated) ==
    LET done == FailingLoop(accounts, anchors, disk, <<>>, now, failing, truncated) IN
    /\ should_check_rollover(now, last_rollover_check)
    /\ is_rollover_time(now)
    /\ last_rollover_check' = now
    /\ anchors' = done.m
    /\ disk' = done.f
    /\ last' = Call("perform_rollover_if_needed", 0, accounts, "ok", done.rolled)
    /\ UNCHANGED now

\* Polls over two accounts in which the folds of some accounts fail; `trace`
\* holds the accounts whose fold failed in the latest poll.
NextSomeFail ==
    \/ \E a \in Accounts, e \in {0, MaxMoney} :
          AnchorsStore_update_intraday_high(a, e) /\ UNCHANGED trace
    \/ \E accounts \in ActiveLists(Accounts), failing \in SUBSET Accounts, truncated \in BOOLEAN :
          /\ RolloverService_perform_rollover_if_needed_some_fail(accounts, failing, truncated)
          /\ trace' = <<failing>>
    \/ AdvanceClock /\ UNCHANGED trace

SpecSomeFail == InitFaults /\ [][NextSomeFail]_vars

SomeFailStep ==
    /\ last'.op = "perform_rollover_if_needed"
    /\ \E truncated \in BOOLEAN :
          RolloverService_perform_rollover_if_needed_some_fail(last'.arg, trace'[1], truncated)

\* C35: in a poll where the fold of some accounts fails, every polled account
\* that was due is folded in memory, those whose fold did not fail are in the
\* returned list, and those whose fold failed are not.
C35_FailureDoesNotStopThePoll ==
    [][ SomeFailStep
        => \A a \in Ids(last'.arg) :
              ~FoldedToday(anchors, a, now)
                  => /\ FoldedToday(anchors', a, now)
                     /\ a \in Range(last'.rolled) <=> a \notin trace'[1] ]_vars

\* The poll went over accounts 1 and 2, both due; the fold of account 1
\* failed; account 2 is folded and listed, and account 1 is not listed.
C35_Witness ==
    /\ last.op = "perform_rollover_if_needed"
    /\ Ids(last.arg) = {1, 2}
    /\ trace = <<{1}>>
    /\ last.rolled = <<2>>
    /\ FoldedToday(anchors, 2, now)
    /\ DiskDate(disk, 2) = Some(Today(now))

----------------------------------------------------------------------------
(* C36 *)

\* C36: a store mutator called for one account keeps every account of the
\* map in the map and leaves the record of every other account as it was.
C36_OtherAccountsUntouched ==
    [][ StoreCallStep
        => /\ DOMAIN anchors \subseteq DOMAIN anchors'
           /\ last'.acct \in DOMAIN anchors'
           /\ \A b \in DOMAIN anchors : b # last'.acct => anchors'[b] = anchors[b] ]_vars

\* perform_rollover has folded account 1; account 2 is still locked out, with
\* its intraday high, and not folded.
C36_Witness ==
    /\ last.op = "perform_rollover"
    /\ last.out = "ok"
    /\ last.acct = 1
    /\ FoldedToday(anchors, 1, now)
    /\ 2 \in DOMAIN anchors
    /\ anchors[2].locked_out
    /\ anchors[2].intraday_high_today = Some(MaxMoney)
    /\ anchors[2].last_rollover_date = None

----------------------------------------------------------------------------
(* C37 *)

\* Every operation that reaches a record of the monitored account, from any
\* map a store can hold for it: the lookup, the mutators, the fold and the
\* service's initialisation.
NextDate ==
    \/ \E a \in Monitored : AnchorsStore_get_anchors(a) /\ UNCHANGED trace
    \/ \E op \in StoreOps, a \in Monitored : \E arg \in FaultArgs(op) :
          StoreCall(op, a, arg) /\ UNCHANGED trace
    \/ \E a \in Monitored, c \in Money, b \in {MaxMoney + 1} :
          RolloverService_initialize_account_anchors(a, c, b) /\ UNCHANGED trace

SpecDate == InitBootstrap /\ [][NextDate]_vars

\* C37: a step that changes an account's last rollover date, or makes the
\* account due or not due, is a perform_rollover on that account; the lookup,
\* the four other mutators and initialize_account_anchors never are.
C37_OnlyRolloverWritesTheDate ==
    [][ \A a \in Monitored :
           ( \/ Rec(anchors', a).last_rollover_date # Rec(anchors, a).last_rollover_date
             \/ FoldedToday(anchors', a, now) # FoldedToday(anchors, a, now) )
           => /\ last'.op = "perform_rollover"
              /\ last'.acct = a ]_vars

\* set_locked_out(False) has run on a record folded today, which is still
\* folded today and unlocked.
C37_Witness ==
    /\ last.op = "set_locked_out"
    /\ last.arg = <<FALSE>>
    /\ last.acct = 1
    /\ FoldedToday(anchors, 1, now)
    /\ ~anchors[1].locked_out

----------------------------------------------------------------------------
(* C38 *)

C38_FrozenAliveBeyondLimit ==
    /\ Calculated
    /\ last.arg = <<Units(50000), Units(101000), Units(98000)>>
    /\ trace[1].floor = Some(Units(50000))
    /\ trace[1].remaining = Some(0 - Units(1000))
    /\ trace[1].pct_used = Some(Quotient(Units(3000) * Percent, Units(2000)))
    /\ trace[1].status = "ALIVE"

----------------------------------------------------------------------------
(* HTTPClient *)

\* What one attempt of session.post or session.get meets: a transport failure
\* (requests raises a RequestException, status 0 here), or a response with a
\* status code and a body that is JSON or is not.
Responses ==
    { [status |-> 0, json |-> FALSE] }
        \cup { [status |-> c, json |-> j] : c \in {200, 401, 500}, j \in BOOLEAN }

\* The class of the error response.json() raises on a body that is not JSON:
\* a RequestException in requests 2.27 and later, a plain ValueError before.
DecodeErrors == {"RequestException", "ValueError"}

\* In SpecHTTP `last` is the call in progress: its method, the configured
\* api_max_retries, the installed library's decode error, and its outcome so
\* far; `trace` holds what the attempts made so far have met.
InitHTTP ==
    /\ anchors = <<>>
    /\ disk = None
    /\ now \in { t \in Instants : \A u \in Instants : t >= u }
    /\ last_rollover_check = InitialRolloverCheck
    /\ \E method \in {"post", "get"}, api_max_retries \in 1..MaxCalls, e \in DecodeErrors :
          last = Call(method, 0, <<api_max_retries, e>>, "running", <<>>)
    /\ trace = <<>>

\* The `except requests.exceptions.RequestException` branch: APIError on the
\* last attempt, otherwise sleep and go round the loop again.
AfterRequestException(attempt, api_max_retries) ==
    IF attempt = api_max_retries - 1 THEN "APIError" ELSE "running"

\* How one iteration of the for loop of post or get ends, on 0-based attempt
\* `attempt`, with decode_error the class response.json() raises.
AttemptOutcome(attempt, api_max_retries, decode_error, response) ==
    IF response.status = 0
    THEN AfterRequestException(attempt, api_max_retries)
    ELSE IF ~response.json
    \* response.json() raises, in the return or in the arguments of APIError
    THEN IF decode_error = "RequestException"
         THEN AfterRequestException(attempt, api_max_retries)
         ELSE "ValueError"
    ELSE IF response.status = 200 THEN "body"
    ELSE "APIError"

\* One iteration of the loop of post.
HTTPClient_post(response) ==
    /\ last.op = "post"
    /\ last.out = "running"
    /\ Len(trace) < last.arg[1]
    /\ trace' = Append(trace, response)
    /\ last' = [last EXCEPT !.out = AttemptOutcome(Len(trace), last.arg[1], last.arg[2], response)]
    /\ UNCHANGED <<anchors, disk, now, last_rollover_check>>

\* One iteration of the loop of get.
HTTPClient_get(response) ==
    /\ last.op = "get"
    /\ last.out = "running"
    /\ Len(trace) < last.arg[1]
    /\ trace' = Append(trace, response)
    /\ last' = [last EXCEPT !.out = AttemptOutcome(Len(trace), last.arg[1], last.arg[2], response)]
    /\ UNCHANGED <<anchors, disk, now, last_rollover_check>>

NextHTTP ==
    \/ \E response \in Responses : HTTPClient_post(response)
    \/ \E response \in Responses : HTTPClient_get(response)

SpecHTTP == InitHTTP /\ [][NextHTTP]_vars

----------------------------------------------------------------------------
(* C39 *)

\* C39: post and get make at most api_max_retries attempts; every attempt
\* before the latest met a transport failure; a 200 response ends the call
\* with its body, any other response ends it with APIError, a transport
\* failure ends it with APIError on the last attempt and only then; a call
\* that has not ended has attempts left.
C39_RetriesOnlyTransportFailures ==
    LET n == Len(trace) IN
    /\ n <= last.arg[1]
    /\ last.out \in {"running", "body", "APIError"}
    /\ \A i \in 1..(n - 1) : trace[i].status = 0
    /\ n > 0 =>
          /\ trace[n].status = 200 => last.out = "body"
          /\ trace[n].status \notin {0, 200} => last.out = "APIError"
          /\ trace[n].status = 0 =>
                last.out = (IF n = last.arg[1] THEN "APIError" ELSE "running")
    /\ last.out = "running" => n < last.arg[1]

====
